---- MODULE Spec2Model ----
(***************************************************************************)
(* Analista Financeiro API (projeto_aula_01_api.py): the chat endpoint     *)
(* with session memory, the session endpoints and the credit-risk tool.    *)
(*                                                                         *)
(* Four specifications:                                                    *)
(*   Spec       the HTTP handlers running on the server's event loop:      *)
(*              chat (agent loop, tool extraction, history storage),       *)
(*              list_sessions, get_session_history, clear_session;         *)
(*   SpecTools  the same handlers for one client on one session, with the  *)
(*              reasoning capability free to request every tool with      *)
(*              good, unknown and invalid arguments;                       *)
(*   SpecToolsFair  SpecTools with weak fairness of the handler's steps;    *)
(*   SpecRisco  the direct endpoint POST /risco applying calcular_risco    *)
(*              to inputs drawn from sets that straddle every threshold.   *)
(*                                                                         *)
(* Conventions.  comprometimento_atual is a float in the code; it is       *)
(* modelled in hundredths (30 stands for 0.30), which is exact for the     *)
(* comparisons with 0.3 and 0.5 on two-decimal inputs.  The rates          *)
(* 1.2 / 1.8 / 2.5 are the strings "1.2" / "1.8" / "2.5" and None is the   *)
(* string "None".  Timestamps of the stored turns are left out: no         *)
(* handler reads them.  A handler's HTTP status is the value of pc         *)
(* ("http_200", "http_404", "http_500") between its last statement and     *)
(* the sending of the response.                                            *)
(***************************************************************************)
EXTENDS Integers, Sequences, FiniteSets, TLC

VARIABLES
    session_store,  \* Dict[str, List[dict]]: session id -> list of turns
    memory,         \* MemorySaver: thread_id -> the agent's message list
    req,            \* per client: the request it has outstanding
    pc,             \* per client: where its request is in the handler
    frame,          \* per client: chat's locals (final content, tools_used)
    before,         \* observation: session_store when the handler started
    risco_in,       \* the arguments of the last POST /risco
    risco_out       \* the dict the last POST /risco returned

vars == <<session_store, memory, req, pc, frame, before,
          risco_in, risco_out>>

chat_vars == <<session_store, memory, req, pc, frame, before>>

risco_vars == <<risco_in, risco_out>>

(***************************************************************************)
(* calcular_risco                                                          *)
(***************************************************************************)

\* Mutant of FatorScore: strict comparisons at the thresholds
FatorScoreStrict(score_cliente) ==
    IF score_cliente > 800 THEN 5
    ELSE IF score_cliente > 700 THEN 15
    ELSE IF score_cliente > 600 THEN 35
    ELSE 50

\* lines 165-176: the contribution of the client's credit score
FatorScore(score_cliente) ==
    IF score_cliente >= 800 THEN 5
    ELSE IF score_cliente >= 700 THEN 15
    ELSE IF score_cliente >= 600 THEN 35
    ELSE 50

\* lines 178-186: the contribution of the income commitment (hundredths)
FatorComprometimento(comprometimento_atual) ==
    IF comprometimento_atual <= 30 THEN 5
    ELSE IF comprometimento_atual <= 50 THEN 20
    ELSE 40

\* lines 188-196: the contribution of the term in months
FatorPrazo(prazo_meses) ==
    IF prazo_meses <= 12 THEN 5
    ELSE IF prazo_meses <= 36 THEN 10
    ELSE 20

\* Mutant of Classificar: strict upper bounds
ClassificarStrict(risco_score) ==
    IF risco_score < 25 THEN
        [classificacao |-> "BAIXO", taxa |-> "1.2",
         recomendacao |-> "Aprovar - Operação de baixo risco"]
    ELSE IF risco_score < 50 THEN
        [classificacao |-> "MÉDIO", taxa |-> "1.8",
         recomendacao |-> "Aprovar com cautela - Considerar garantias adicionais"]
    ELSE IF risco_score < 75 THEN
        [classificacao |-> "ALTO", taxa |-> "2.5",
         recomendacao |-> "Revisar - Necessita aprovação de comitê"]
    ELSE
        [classificacao |-> "MUITO ALTO", taxa |-> "None",
         recomendacao |-> "Não aprovar - Risco excessivo"]

\* lines 198-213: classification, recommendation and suggested monthly rate
Classificar(risco_score) ==
    IF risco_score <= 25 THEN
        [classificacao |-> "BAIXO", taxa |-> "1.2",
         recomendacao |-> "Aprovar - Operação de baixo risco"]
    ELSE IF risco_score <= 50 THEN
        [classificacao |-> "MÉDIO", taxa |-> "1.8",
         recomendacao |-> "Aprovar com cautela - Considerar garantias adicionais"]
    ELSE IF risco_score <= 75 THEN
        [classificacao |-> "ALTO", taxa |-> "2.5",
         recomendacao |-> "Revisar - Necessita aprovação de comitê"]
    ELSE
        [classificacao |-> "MUITO ALTO", taxa |-> "None",
         recomendacao |-> "Não aprovar - Risco excessivo"]

\* lines 157-223: risco_score starts at 0, the three ladders add to it in
\* the order score, commitment, term; the dict echoes valor and prazo.
calcular_risco(valor_operacao, prazo_meses, score_cliente, comprometimento_atual) ==
    LET s1 == 0 + FatorScore(score_cliente)
        s2 == s1 + FatorComprometimento(comprometimento_atual)
        risco_score == s2 + FatorPrazo(prazo_meses)
        c == Classificar(risco_score)
    IN  [score_risco |-> risco_score,
         classificacao |-> c.classificacao,
         recomendacao |-> c.recomendacao,
         taxa_juros_mensal_sugerida |-> c.taxa,
         valor_operacao |-> valor_operacao,
         prazo_meses |-> prazo_meses,
         fatores_analisados |-> <<FatorScore(score_cliente),
                                  FatorComprometimento(comprometimento_atual),
                                  FatorPrazo(prazo_meses)>>]

\* Inputs of POST /risco: both sides of every threshold and values outside
\* the documented domains (negative value, score > 1000, ratio > 1.0).
Valores == {-100, 0, 50000}
Prazos == {-1, 0, 12, 13, 36, 37, 60}
Scores == {-1, 0, 500, 599, 600, 699, 700, 799, 800, 1001}
Comprometimentos == {-5, 0, 30, 31, 50, 51, 90, 150}

\* lines 502-515: the direct endpoint calls the tool with the four arguments
post_risco(valor_operacao, prazo_meses, score_cliente, comprometimento_atual) ==
    /\ risco_in' = [valor_operacao |-> valor_operacao,
                    prazo_meses |-> prazo_meses,
                    score_cliente |-> score_cliente,
                    comprometimento_atual |-> comprometimento_atual]
    /\ risco_out' = calcular_risco(valor_operacao, prazo_meses,
                                   score_cliente, comprometimento_atual)
    /\ UNCHANGED chat_vars

(***************************************************************************)
(* The four tools as the agent's tool node runs them                       *)
(***************************************************************************)

\* Bounds of the model
MaxMessages == 6    \* messages the checkpointer holds, over all threads

Clients == {"c1", "c2"}         \* concurrent HTTP clients
Sessions == {"default", "s1"}   \* session ids; "default" is ChatRequest's default

\* line 59-68, 104-132, 238-242: the keys of the three simulated tables
acoes_simuladas ==
    {"PETR4", "VALE3", "ITUB4", "BBDC4", "ABEV3", "WEGE3", "MGLU3", "B3SA3"}
clientes_simulados == {"12345678900", "98765432100", "11122233344"}
cotacoes_para_brl == {"USD", "EUR", "BRL"}

\* str.upper() on the strings the model uses (lines 70, 244, 245)
upper(s) ==
    CASE s = "petr4" -> "PETR4"
      [] s = "usd" -> "USD"
      [] s = "jpy" -> "JPY"
      [] OTHER -> s

\* line 134: cpf.replace(".", "").replace("-", "").replace(" ", "")
cpf_limpo(cpf) ==
    CASE cpf = "123.456.789-00" -> "12345678900"
      [] cpf = "000.000.000-00" -> "00000000000"
      [] OTHER -> cpf

\* lines 49-51, 94-96, 149-154, 226-230: the number of required fields of
\* each tool's args_schema
SchemaFields(name) ==
    CASE name = "consultar_cotacao" -> 1
      [] name = "consultar_cliente" -> 1
      [] name = "calcular_risco" -> 4
      [] name = "converter_moeda" -> 3

\* Mutant of consultar_cotacao: without the membership test of line 72 the
\* lookup of line 78 raises KeyError for an unknown symbol
consultar_cotacaoUnchecked(simbolo) ==
    IF upper(simbolo) \notin acoes_simuladas THEN "raise" ELSE "ok"

\* lines 70-91: an unknown symbol returns the dict with key "erro"
consultar_cotacao(simbolo) ==
    IF upper(simbolo) \notin acoes_simuladas THEN "erro" ELSE "ok"

\* lines 134-146: an unknown CPF returns the dict with key "erro"
consultar_cliente(cpf) ==
    IF cpf_limpo(cpf) \notin clientes_simulados THEN "erro" ELSE "ok"

\* lines 244-266: an unsupported currency returns the dict with key "erro"
converter_moeda(valor, moeda_origem, moeda_destino) ==
    IF upper(moeda_origem) \notin cotacoes_para_brl
       \/ upper(moeda_destino) \notin cotacoes_para_brl
    THEN "erro" ELSE "ok"

\* @tool(args_schema=...) at lines 53, 98, 156, 232: the arguments are
\* validated against the schema before the body runs, and a call that
\* fails validation is answered with an error message for the agent; the
\* body's result is the content of the ToolMessage.  The result is one of
\* "ok", "erro", "validation_error", or "raise" for an exception that
\* leaves the tool.
ToolPayload(call) ==
    IF Len(call.args) # SchemaFields(call.name) THEN "validation_error"
    ELSE CASE call.name = "consultar_cotacao" -> consultar_cotacao(call.args[1])
           [] call.name = "consultar_cliente" -> consultar_cliente(call.args[1])
           [] call.name = "calcular_risco" ->
                IF "erro" \in DOMAIN calcular_risco(call.args[1], call.args[2],
                                                    call.args[3], call.args[4])
                THEN "erro" ELSE "ok"
           [] call.name = "converter_moeda" ->
                converter_moeda(call.args[1], call.args[2], call.args[3])

Call(name, args) == [name |-> name, args |-> args]

\* What the reasoning capability may ask for: every tool with arguments it
\* accepts, arguments it answers with an error, and arguments that miss a
\* required field.
ToolCallMenu ==
    {Call("consultar_cotacao", <<"petr4">>), Call("consultar_cotacao", <<"XPTO">>),
     Call("consultar_cotacao", <<>>),
     Call("consultar_cliente", <<"123.456.789-00">>),
     Call("consultar_cliente", <<"000.000.000-00">>),
     Call("consultar_cliente", <<>>),
     Call("calcular_risco", <<50000, 37, 799, 51>>),
     Call("calcular_risco", <<50000, 37>>),
     Call("converter_moeda", <<"100", "usd", "BRL">>),
     Call("converter_moeda", <<"100", "jpy", "BRL">>),
     Call("converter_moeda", <<"100">>)}

(***************************************************************************)
(* Messages of the agent's thread and turns of the session history         *)
(***************************************************************************)

HumanMessage(content) ==
    [type |-> "human", name |-> "", content |-> content, tool_calls |-> <<>>]
AIMessage(content, calls) ==
    [type |-> "ai", name |-> "", content |-> content, tool_calls |-> calls]
ToolMessage(call) ==
    [type |-> "tool", name |-> call.name, content |-> ToolPayload(call),
     tool_calls |-> <<>>]

\* The text of a client's message, and the final answer the reasoning
\* capability writes to a thread whose last human message is m.
Mensagem(c) == <<"pergunta", c>>
Resposta(m) == <<"resposta", m[2]>>

Last(seq) == seq[Len(seq)]

RECURSIVE HumanCount(_)
HumanCount(msgs) ==
    IF msgs = <<>> THEN 0
    ELSE (IF Head(msgs).type = "human" THEN 1 ELSE 0) + HumanCount(Tail(msgs))

RECURSIVE CallCount(_)
CallCount(msgs) ==
    IF msgs = <<>> THEN 0
    ELSE Len(Head(msgs).tool_calls) + CallCount(Tail(msgs))

\* The position of the last human message of a thread (0 if none)
LastHuman(msgs) ==
    LET H == {i \in 1..Len(msgs) : msgs[i].type = "human"}
    IN  IF H = {} THEN 0 ELSE CHOOSE i \in H : \A j \in H : j <= i

\* lines 415-419: for msg in resultado["messages"], for tc in msg.tool_calls,
\* tools_used.append(tc['name']); messages without tool calls add nothing
RECURSIVE ExtractTools(_)
ExtractTools(messages) ==
    IF messages = <<>> THEN <<>>
    ELSE LET calls == Head(messages).tool_calls
         IN  [i \in 1..Len(calls) |-> calls[i].name] \o ExtractTools(Tail(messages))

\* lines 424-428 and 429-434: the two dicts chat appends
UserTurn(message) == [role |-> "user", content |-> message]
AssistantTurn(content, tools) ==
    [role |-> "assistant", content |-> content, tools_used |-> tools]

NoFrame == [content |-> <<>>, tools_used |-> <<>>]
NoRequest == [kind |-> "none", session_id |-> "default", message |-> <<>>]
EmptyStore == [s \in {} |-> <<>>]

Kinds == {"chat", "list", "history", "clear"}

\* Mutant of EventLoopFree: handlers declared with def run in the server's
\* thread pool, one thread per request, and overlap
EventLoopThreaded == TRUE

\* The handlers are coroutines (async def, lines 393, 456, 465, 477) that
\* never await: agente.invoke at line 409 is a synchronous call.  The
\* server's single event loop therefore runs one handler at a time, from
\* its first statement to its return.
EventLoopFree == \A c \in Clients : pc[c] \in {"idle", "waiting"}

\* Mutant of StoreKey: the exchange is stored under ChatRequest's default id
StoreKeyDefault(c) == "default"

\* line 406, 422-429: the key under which chat stores the exchange
StoreKey(c) == req[c].session_id

RECURSIVE SumOver(_, _)
SumOver(f, S) ==
    IF S = {} THEN 0
    ELSE LET x == CHOOSE y \in S : TRUE IN f[x] + SumOver(f, S \ {x})

\* Messages the checkpointer holds
Stored == SumOver([s \in Sessions |-> Len(memory[s])], Sessions)

\* Messages the requests under way will still add: a chat not yet given to
\* the agent adds its HumanMessage and a final answer, a chat in the agent
\* loop its final answer and one ToolMessage per tool call under way.
Reserved(c) ==
    CASE req[c].kind = "chat" /\ pc[c] \in {"waiting", "invoke"} -> 2
      [] pc[c] = "agent" -> 1
      [] pc[c] = "tools" -> 1 + Len(Last(memory[req[c].session_id]).tool_calls)
      [] OTHER -> 0

Room == MaxMessages - Stored - SumOver([c \in Clients |-> Reserved(c)], Clients)

Init ==
    /\ session_store = EmptyStore
    /\ memory = [s \in Sessions |-> <<>>]
    /\ req = [c \in Clients |-> NoRequest]
    /\ pc = [c \in Clients |-> "idle"]
    /\ frame = [c \in Clients |-> NoFrame]
    /\ before = [c \in Clients |-> EmptyStore]
    /\ risco_in = [valor_operacao |-> 0, prazo_meses |-> 0,
                   score_cliente |-> 0, comprometimento_atual |-> 0]
    /\ risco_out = calcular_risco(0, 0, 0, 0)

\* An HTTP client sends a request; it waits until the event loop takes it.
Send(c, kind, sid) ==
    /\ pc[c] = "idle"
    /\ kind = "chat" => Room >= 2
    /\ kind = "list" => sid = NoRequest.session_id
    /\ req' = [req EXCEPT ![c] =
                 [kind |-> kind, session_id |-> sid,
                  message |-> IF kind = "chat" THEN Mensagem(c) ELSE <<>>]]
    /\ pc' = [pc EXCEPT ![c] = "waiting"]
    /\ UNCHANGED <<session_store, memory, frame, before, risco_vars>>

\* The event loop starts the handler of a waiting request.
Dispatch(c) ==
    /\ pc[c] = "waiting"
    /\ EventLoopFree
    /\ pc' = [pc EXCEPT ![c] =
                CASE req[c].kind = "chat" -> "invoke"
                  [] req[c].kind = "list" -> "list"
                  [] req[c].kind = "history" -> "history"
                  [] req[c].kind = "clear" -> "clear"]
    /\ before' = [before EXCEPT ![c] = session_store]
    /\ UNCHANGED <<session_store, memory, req, frame, risco_vars>>

\* The handler of client c returns (200) or raises an HTTPException (404,
\* 500): what is left is for the server to send the response.
Finish(c, status) ==
    /\ pc' = [pc EXCEPT ![c] = status]
    /\ UNCHANGED <<req, frame, before>>

\* The server sends the response; the event loop is free again and the
\* client may send its next request.
Respond(c) ==
    /\ pc[c] \in {"http_200", "http_404", "http_500"}
    /\ pc' = [pc EXCEPT ![c] = "idle"]
    /\ req' = [req EXCEPT ![c] = NoRequest]
    /\ frame' = [frame EXCEPT ![c] = NoFrame]
    /\ before' = [before EXCEPT ![c] = EmptyStore]
    /\ UNCHANGED <<session_store, memory, risco_vars>>

(***************************************************************************)
(* POST /chat                                                              *)
(***************************************************************************)

\* line 406: config = {"configurable": {"thread_id": request.session_id}}
ThreadId(c) == req[c].session_id

\* Mutant of AgentInvoke: the user turn is stored before the agent runs
AgentInvokeStoresFirst(c) ==
    /\ pc[c] = "invoke"
    /\ memory' = [memory EXCEPT ![req[c].session_id] =
                    Append(@, HumanMessage(req[c].message))]
    /\ session_store' =
         [s \in DOMAIN session_store \cup {req[c].session_id} |->
            IF s = req[c].session_id
            THEN Append(IF s \in DOMAIN session_store THEN session_store[s]
                        ELSE <<>>, UserTurn(req[c].message))
            ELSE session_store[s]]
    /\ pc' = [pc EXCEPT ![c] = "agent"]
    /\ UNCHANGED <<req, frame, before, risco_vars>>

\* lines 409-412: agente.invoke starts.  The checkpointer (line 301, 304)
\* restores the thread's messages and the new HumanMessage is added to
\* them; the thread is saved after every step of the agent.
AgentInvoke(c) ==
    /\ pc[c] = "invoke"
    /\ memory' = [memory EXCEPT ![ThreadId(c)] =
                    Append(@, HumanMessage(req[c].message))]
    /\ pc' = [pc EXCEPT ![c] = "agent"]
    /\ UNCHANGED <<session_store, req, frame, before, risco_vars>>

\* The reasoning capability asks for one or more tool calls of the menu.
AgentCallsTools(c, menu) ==
    /\ pc[c] = "agent"
    /\ \E n \in 1..(Room - 1) : \E calls \in [1..n -> menu] :
         memory' = [memory EXCEPT ![ThreadId(c)] = Append(@, AIMessage(<<>>, calls))]
    /\ pc' = [pc EXCEPT ![c] = "tools"]
    /\ UNCHANGED <<session_store, req, frame, before, risco_vars>>

\* The tool node runs the requested calls in order and adds one ToolMessage
\* per call; an exception that leaves a tool leaves agente.invoke and is
\* caught at line 442.
ToolNode(c) ==
    /\ pc[c] = "tools"
    /\ LET calls == Last(memory[ThreadId(c)]).tool_calls
       IN  IF \E i \in 1..Len(calls) : ToolPayload(calls[i]) = "raise"
           THEN /\ Finish(c, "http_500")
                /\ UNCHANGED <<session_store, memory, risco_vars>>
           ELSE /\ memory' = [memory EXCEPT ![ThreadId(c)] =
                                @ \o [i \in 1..Len(calls) |-> ToolMessage(calls[i])]]
                /\ pc' = [pc EXCEPT ![c] = "agent"]
                /\ UNCHANGED <<session_store, req, frame, before,
                               risco_vars>>

\* The reasoning capability writes its final answer: agente.invoke returns
\* the thread's messages (line 409), tools_used is extracted from all of
\* them (lines 415-419) and the last message's content is the reply.
AgentAnswers(c) ==
    /\ pc[c] = "agent"
    /\ LET msgs == memory[ThreadId(c)]
           final == AIMessage(Resposta(msgs[LastHuman(msgs)].content), <<>>)
           resultado == Append(msgs, final)
       IN  /\ memory' = [memory EXCEPT ![ThreadId(c)] = resultado]
           /\ frame' = [frame EXCEPT ![c] =
                          [content |-> Last(resultado).content,
                           tools_used |-> ExtractTools(resultado)]]
    /\ pc' = [pc EXCEPT ![c] = "ensure"]
    /\ UNCHANGED <<session_store, req, before, risco_vars>>

\* The reasoning capability raises: lines 442-443 answer HTTP 500.
AgentRaises(c) ==
    /\ pc[c] = "agent"
    /\ Finish(c, "http_500")
    /\ UNCHANGED <<session_store, memory, risco_vars>>

\* Mutant of ChatEnsure: the list is created without the membership test
ChatEnsureResets(c) ==
    /\ pc[c] = "ensure"
    /\ session_store' =
         [s \in DOMAIN session_store \cup {StoreKey(c)} |->
            IF s = StoreKey(c) THEN <<>> ELSE session_store[s]]
    /\ pc' = [pc EXCEPT ![c] = "put_user"]
    /\ UNCHANGED <<memory, req, frame, before, risco_vars>>

\* The reasoning capability does not return.  llm is built at line 298
\* without a timeout and agente.invoke is called at lines 409-412 without
\* one: the handler stays inside the call, and with it the event loop.
AgentHangs(c) ==
    /\ pc[c] = "agent"
    /\ pc' = [pc EXCEPT ![c] = "hung"]
    /\ UNCHANGED <<session_store, memory, req, frame, before, risco_vars>>

\* lines 422-423: if request.session_id not in session_store: ... = []
ChatEnsure(c) ==
    /\ pc[c] = "ensure"
    /\ session_store' =
         IF StoreKey(c) \in DOMAIN session_store THEN session_store
         ELSE [s \in DOMAIN session_store \cup {StoreKey(c)} |->
                 IF s = StoreKey(c) THEN <<>> ELSE session_store[s]]
    /\ pc' = [pc EXCEPT ![c] = "put_user"]
    /\ UNCHANGED <<memory, req, frame, before, risco_vars>>

\* lines 424-428: session_store[request.session_id].append(user turn);
\* a missing key is a KeyError, caught at line 442
ChatPutUser(c) ==
    /\ pc[c] = "put_user"
    /\ IF StoreKey(c) \in DOMAIN session_store
       THEN /\ session_store' = [session_store EXCEPT ![StoreKey(c)] =
                                   Append(@, UserTurn(req[c].message))]
            /\ pc' = [pc EXCEPT ![c] = "put_assistant"]
            /\ UNCHANGED <<req, frame, before>>
       ELSE /\ Finish(c, "http_500")
            /\ UNCHANGED session_store
    /\ UNCHANGED <<memory, risco_vars>>

\* lines 429-434: session_store[request.session_id].append(assistant turn)
ChatPutAssistant(c) ==
    /\ pc[c] = "put_assistant"
    /\ IF StoreKey(c) \in DOMAIN session_store
       THEN /\ session_store' = [session_store EXCEPT ![StoreKey(c)] =
                                   Append(@, AssistantTurn(frame[c].content,
                                                           frame[c].tools_used))]
            /\ pc' = [pc EXCEPT ![c] = "return"]
            /\ UNCHANGED <<req, frame, before>>
       ELSE /\ Finish(c, "http_500")
            /\ UNCHANGED session_store
    /\ UNCHANGED <<memory, risco_vars>>

\* lines 436-440: return ChatResponse(response, session_id, tools_used)
ChatReturn(c) ==
    /\ pc[c] = "return"
    /\ Finish(c, "http_200")
    /\ UNCHANGED <<session_store, memory, risco_vars>>

(***************************************************************************)
(* GET /sessions, GET /sessions/{id}/history, DELETE /sessions/{id}        *)
(***************************************************************************)

\* lines 456-461: (session_id, message_count) of every stored session
list_sessions(c) ==
    /\ pc[c] = "list"
    /\ frame' = [frame EXCEPT ![c].content =
                    [s \in DOMAIN session_store |-> Len(session_store[s])]]
    /\ pc' = [pc EXCEPT ![c] = "http_200"]
    /\ UNCHANGED <<req, before>>
    /\ UNCHANGED <<session_store, memory, risco_vars>>

\* lines 465-473: 404 for an unknown session, else its messages
get_session_history(c) ==
    /\ pc[c] = "history"
    /\ IF req[c].session_id \notin DOMAIN session_store
       THEN Finish(c, "http_404")
       ELSE /\ frame' = [frame EXCEPT ![c].content =
                           session_store[req[c].session_id]]
            /\ pc' = [pc EXCEPT ![c] = "http_200"]
            /\ UNCHANGED <<req, before>>
    /\ UNCHANGED <<session_store, memory, risco_vars>>

\* lines 477-483: del session_store[session_id], or 404; the checkpointer
\* `memory` is not touched
clear_session(c) ==
    /\ pc[c] = "clear"
    /\ IF req[c].session_id \in DOMAIN session_store
       THEN /\ session_store' = [s \in DOMAIN session_store \ {req[c].session_id}
                                   |-> session_store[s]]
            /\ Finish(c, "http_200")
       ELSE /\ UNCHANGED session_store
            /\ Finish(c, "http_404")
    /\ UNCHANGED <<memory, risco_vars>>

\* Spec: two clients, two sessions; the reasoning capability asks for a
\* quote of a known symbol or the profile of an unknown client.
SessionMenu ==
    {Call("consultar_cotacao", <<"petr4">>),
     Call("consultar_cliente", <<"000.000.000-00">>)}

Handler(c) ==
    \/ Dispatch(c)
    \/ AgentInvoke(c)
    \/ ToolNode(c)
    \/ AgentAnswers(c)
    \/ AgentRaises(c)
    \/ AgentHangs(c)
    \/ ChatEnsure(c)
    \/ ChatPutUser(c)
    \/ ChatPutAssistant(c)
    \/ ChatReturn(c)
    \/ list_sessions(c)
    \/ get_session_history(c)
    \/ clear_session(c)
    \/ Respond(c)

Next ==
    \/ \E c \in Clients, kind \in Kinds, sid \in Sessions : Send(c, kind, sid)
    \/ \E c \in Clients : AgentCallsTools(c, SessionMenu)
    \/ \E c \in Clients : Handler(c)

Spec == Init /\ [][Next]_vars

\* SpecTools: one client on one session; the reasoning capability asks for
\* any call of ToolCallMenu.
NextTools ==
    \/ \E kind \in Kinds : Send("c1", kind, "default")
    \/ AgentCallsTools("c1", ToolCallMenu)
    \/ Handler("c1")

SpecTools == Init /\ [][NextTools]_vars

\* SpecToolsFair: SpecTools with the scheduling the server guarantees: the
\* event loop keeps running the handler it started, and the reasoning
\* step that can make progress eventually takes a step.
SpecToolsFair ==
    /\ SpecTools
    /\ WF_vars(Handler("c1"))
    /\ WF_vars(AgentCallsTools("c1", ToolCallMenu))

NextRisco ==
    \E v \in Valores, p \in Prazos, s \in Scores, k \in Comprometimentos :
        post_risco(v, p, s, k)

SpecRisco == Init /\ [][NextRisco]_vars

(***************************************************************************)
(* Properties                                                              *)
(***************************************************************************)

\* The ladders as the specification tabulates them
LadderScore(s) ==
    CASE s >= 800 -> 5
      [] s >= 700 /\ s < 800 -> 15
      [] s >= 600 /\ s < 700 -> 35
      [] s < 600 -> 50
LadderComprometimento(k) ==
    CASE k <= 30 -> 5
      [] k > 30 /\ k <= 50 -> 20
      [] k > 50 -> 40
LadderPrazo(p) ==
    CASE p <= 12 -> 5
      [] p > 12 /\ p <= 36 -> 10
      [] p > 36 -> 20

\* C1: the score_risco returned by calcular_risco is, for every input
\* (out-of-domain values included), the sum of the three ladder
\* contributions of score_cliente, comprometimento_atual and prazo_meses
\* with inclusive boundaries; it is a function of these three arguments
\* alone, whatever valor_operacao is and whatever was computed before.
C1_ScoreIsLadderSum ==
    /\ risco_out.score_risco =
         LadderScore(risco_in.score_cliente)
         + LadderComprometimento(risco_in.comprometimento_atual)
         + LadderPrazo(risco_in.prazo_meses)
    /\ risco_out.fatores_analisados =
         <<LadderScore(risco_in.score_cliente),
           LadderComprometimento(risco_in.comprometimento_atual),
           LadderPrazo(risco_in.prazo_meses)>>

\* C1 witness: the boundary input score=800, ratio=0.30, term=12 with a
\* negative operation value scores 5+5+5
C1_Witness ==
    /\ risco_in.score_cliente = 800
    /\ risco_in.comprometimento_atual = 30
    /\ risco_in.prazo_meses = 12
    /\ risco_in.valor_operacao = -100
    /\ risco_out.score_risco = 15

\* C2: the classification and the suggested rate follow the total score:
\* <=25 BAIXO 1.2, 26..50 MEDIO 1.8, 51..75 ALTO 2.5, >75 MUITO ALTO, and
\* the rate is None exactly for MUITO ALTO.
C2_ClassificationLadder ==
    LET t == risco_out.score_risco
        k == risco_out.classificacao
        r == risco_out.taxa_juros_mensal_sugerida
    IN  /\ t <= 25 => k = "BAIXO" /\ r = "1.2"
        /\ t >= 26 /\ t <= 50 => k = "MÉDIO" /\ r = "1.8"
        /\ t >= 51 /\ t <= 75 => k = "ALTO" /\ r = "2.5"
        /\ t > 75 => k = "MUITO ALTO"
        /\ r = "None" <=> k = "MUITO ALTO"

\* C2 witness: score=799, ratio=0.51, term=37 totals 75 and is ALTO at 2.5
C2_Witness ==
    /\ risco_in.score_cliente = 799
    /\ risco_in.comprometimento_atual = 51
    /\ risco_in.prazo_meses = 37
    /\ risco_out.score_risco = 75
    /\ risco_out.classificacao = "ALTO"
    /\ risco_out.taxa_juros_mensal_sugerida = "2.5"

\* Helpers of the properties below
IsPrefix(a, b) == Len(a) <= Len(b) /\ SubSeq(b, 1, Len(a)) = a
TurnsOf(store, s) == IF s \in DOMAIN store THEN store[s] ELSE <<>>
HistOf(store, s) ==
    IF s \in DOMAIN store THEN <<"present", store[s]>> ELSE <<"absent", <<>>>>
IsChat(c) == req[c].kind = "chat"
\* The tool names requested after the last human message of a thread
TurnTools(msgs) == ExtractTools(SubSeq(msgs, LastHuman(msgs) + 1, Len(msgs)))
\* The last two turns of session s are the exchange of client c
PairStored(c, s) ==
    /\ s \in DOMAIN session_store
    /\ Len(session_store[s]) >= 2
    /\ LET h == session_store[s]
       IN  /\ h[Len(h) - 1] = UserTurn(req[c].message)
           /\ h[Len(h)] = AssistantTurn(frame[c].content, frame[c].tools_used)

\* Every earlier message of the thread was answered: each human message
\* but the first follows a final answer
EarlierAnswered(msgs) ==
    \A i \in 2..Len(msgs) :
        msgs[i].type = "human" =>
            msgs[i - 1].type = "ai" /\ msgs[i - 1].tool_calls = <<>>

\* C3: the tool list of a successful chat, as returned and as recorded on
\* the assistant turn, is the list of the tools invoked for that message:
\* no tool of an earlier (answered) message of the session is in it.
C3_ToolsUsedAreThisTurns ==
    \A c \in Clients :
        /\ IsChat(c) /\ pc[c] \in {"return", "http_200"}
        /\ EarlierAnswered(memory[ThreadId(c)])
        =>
            /\ frame[c].tools_used = TurnTools(memory[ThreadId(c)])
            /\ Last(session_store[StoreKey(c)]).tools_used
                 = TurnTools(memory[ThreadId(c)])

\* C4: a chat that fails answers 500 and leaves session_store as it was
\* when its handler started; while the agent runs nothing is stored, so a
\* turn is in the store only on the way to the 200 response.
C4_FailedChatLeavesStore ==
    \A c \in Clients :
        IsChat(c) =>
            /\ pc[c] \in {"invoke", "agent", "tools", "http_500"} =>
                   session_store = before[c]
            /\ pc[c] \notin {"idle", "waiting"} /\ session_store # before[c] =>
                   pc[c] \in {"ensure", "put_user", "put_assistant", "return",
                              "http_200"}

\* C4 witness: a message on a session that already holds an exchange fails
C4_Witness ==
    \E c \in Clients :
        /\ IsChat(c)
        /\ pc[c] = "http_500"
        /\ req[c].session_id \in DOMAIN session_store
        /\ Len(session_store[req[c].session_id]) >= 2

\* C5: a successful delete of a session id leaves nothing of its context:
\* neither the turn history nor the thread the agent resumes from.
C5_DeleteRemovesContext ==
    \A c \in Clients :
        req[c].kind = "clear" /\ pc[c] = "http_200" =>
            /\ req[c].session_id \notin DOMAIN session_store
            /\ memory[req[c].session_id] = <<>>

\* C6: every step changes the stored history of no session other than the
\* one the chat or delete under way names; history reads and listings
\* change none.
C6_SessionIsolation ==
    [][\A b \in Sessions :
         HistOf(session_store', b) # HistOf(session_store, b) =>
             \E c \in Clients :
                 /\ pc'[c] # pc[c]
                 /\ req[c].kind \in {"chat", "clear"}
                 /\ req[c].session_id = b]_vars

\* C6 witness: a delete succeeds while another session holds an exchange
C6_Witness ==
    \E c \in Clients, b \in Sessions :
        /\ req[c].kind = "clear"
        /\ pc[c] = "http_200"
        /\ b # req[c].session_id
        /\ b \in DOMAIN session_store
        /\ Len(session_store[b]) >= 2

\* C7: every stored history is a sequence of pairs, a user turn followed by
\* the assistant turn answering that message; the only unpaired turn is
\* the user turn of the chat that is between its two appends; and the
\* exchange of a chat about to answer 200 is stored, last in its session.
C7_HistoryIsPairs ==
    /\ \A s \in DOMAIN session_store :
         LET h == session_store[s]
         IN  /\ \A i \in 1..Len(h) :
                   IF i % 2 = 1
                   THEN /\ h[i].role = "user"
                        /\ i < Len(h) =>
                             /\ h[i + 1].role = "assistant"
                             /\ h[i + 1].content = Resposta(h[i].content)
                   ELSE h[i].role = "assistant"
             /\ Len(h) % 2 = 1 =>
                   \E c \in Clients :
                       /\ pc[c] = "put_assistant"
                       /\ StoreKey(c) = s
                       /\ h[Len(h)] = UserTurn(req[c].message)
    /\ \A c \in Clients :
         IsChat(c) /\ pc[c] \in {"return", "http_200"} => PairStored(c, StoreKey(c))

\* C7 witness: a session holds the exchanges of two clients, the second
\* just stored while the first client already waits with a new message
\* for the same session
C7_Witness ==
    \E c, d \in Clients :
        /\ c # d
        /\ IsChat(c) /\ pc[c] = "return"
        /\ IsChat(d) /\ pc[d] = "waiting"
        /\ req[d].session_id = req[c].session_id
        /\ Len(session_store[req[c].session_id]) = 4
        /\ session_store[req[c].session_id][1] = UserTurn(Mensagem(d))

\* C8: while a chat on one session is in the reasoning step, a waiting
\* request on another session can be started.
C8_OtherSessionNotBlocked ==
    \A a, b \in Clients :
        /\ IsChat(a) /\ pc[a] \in {"agent", "tools"}
        /\ pc[b] = "waiting"
        /\ req[b].kind # "list" => req[b].session_id # req[a].session_id
        => ENABLED Dispatch(b)

\* The calls of ToolCallMenu that a tool answers with an error: unknown
\* quote symbol, unknown CPF, unsupported currency
UnknownCalls ==
    {Call("consultar_cotacao", <<"XPTO">>),
     Call("consultar_cliente", <<"000.000.000-00">>),
     Call("converter_moeda", <<"100", "jpy", "BRL">>)}

\* The calls of ToolCallMenu with invalid arguments (a required field is
\* missing)
InvalidCalls ==
    {Call("consultar_cotacao", <<>>), Call("consultar_cliente", <<>>),
     Call("calcular_risco", <<50000, 37>>), Call("converter_moeda", <<"100">>)}

\* Every tool call already run is followed by its ToolMessage, an error
\* payload for the calls of UnknownCalls and InvalidCalls
EvidenceFedBack(msgs) ==
    \A i \in 1..Len(msgs) :
        LET calls == msgs[i].tool_calls
        IN  i + Len(calls) <= Len(msgs) =>
                \A j \in 1..Len(calls) :
                    /\ msgs[i + j].type = "tool"
                    /\ msgs[i + j].name = calls[j].name
                    /\ msgs[i + j].content =
                         CASE calls[j] \in UnknownCalls -> "erro"
                           [] calls[j] \in InvalidCalls -> "validation_error"
                           [] OTHER -> "ok"

\* C9: a tool error never fails a message.  The tool step always hands
\* control back to the reasoning capability with the tools' payloads as
\* messages of the thread; a chat fails only at a step of the reasoning
\* capability; and a chat that answers 200 has a non-empty final text and
\* its exchange stored.
C9_ToolErrorsAreEvidence ==
    /\ [](\A s \in Sessions : EvidenceFedBack(memory[s]))
    /\ [](\A c \in Clients :
            IsChat(c) /\ pc[c] = "http_200" =>
                frame[c].content # <<>> /\ PairStored(c, StoreKey(c)))
    /\ [][\A c \in Clients :
            /\ pc[c] = "tools" => pc'[c] \in {"tools", "agent"}
            /\ IsChat(c) /\ pc'[c] = "http_500" /\ pc[c] # "http_500" =>
                   pc[c] = "agent"]_vars

\* C9 witness: a chat answers 200 after a tool of its turn returned an error
C9_Witness ==
    \E c \in Clients :
        /\ IsChat(c)
        /\ pc[c] = "http_200"
        /\ LET msgs == memory[ThreadId(c)]
           IN  \E i \in (LastHuman(msgs) + 1)..Len(msgs) :
                   msgs[i].type = "tool" /\ msgs[i].content = "erro"

\* C10: between deletions a session's history only grows at its end: every
\* step other than a delete of that id leaves the old history a prefix of
\* the new one (an existing session is never reset); a chat that answers
\* 200 has added exactly two turns, and a failed chat, a history read and
\* a listing none.
C10_AppendOnly ==
    /\ [][\A s \in DOMAIN session_store :
            \/ s \in DOMAIN session_store'
               /\ IsPrefix(session_store[s], session_store'[s])
            \/ \E c \in Clients :
                   /\ pc[c] = "clear" /\ pc'[c] # pc[c]
                   /\ req[c].session_id = s]_vars
    /\ [](\A c \in Clients :
            LET s == req[c].session_id
                old == TurnsOf(before[c], s)
            IN  /\ IsChat(c) /\ pc[c] = "http_200" =>
                    /\ Len(TurnsOf(session_store, s)) = Len(old) + 2
                    /\ IsPrefix(old, TurnsOf(session_store, s))
                /\ IsChat(c) /\ pc[c] = "http_500" =>
                    HistOf(session_store, s) = HistOf(before[c], s)
                /\ req[c].kind \in {"history", "list"}
                   /\ pc[c] \in {"http_200", "http_404"} =>
                    session_store = before[c])

\* C10 witness: a chat answers 200 on a session that already held an
\* exchange, which now holds four turns
C10_Witness ==
    \E c \in Clients :
        /\ IsChat(c)
        /\ pc[c] = "http_200"
        /\ Len(TurnsOf(before[c], req[c].session_id)) = 2
        /\ Len(session_store[req[c].session_id]) = 4

\* C11: every chat message given to the agent eventually reaches a
\* terminal state, the 200 response (RESPONDED) or the 500 response
\* (FAILED); it never stays in the reasoning step forever.
C11_ChatReachesTerminal ==
    \A c \in Clients :
        (IsChat(c) /\ pc[c] = "invoke") ~> (pc[c] \in {"http_200", "http_500"})

====
